---- MODULE Spec2Model ----
(***************************************************************************)
(* Trust chain resolution of openid-federation-ts:                         *)
(*   packages/core/src/resolveTrustChains/resolveTrustChains.ts            *)
(*                                                                         *)
(* One call of resolveTrustChains is modelled as a process: it captures    *)
(* `now`, awaits the discovery collaborator, then for every candidate      *)
(* configuration chain awaits the statement collaborator and runs the      *)
(* synchronous remainder of the loop body.  Time (clock) advances while    *)
(* the call is suspended at an await.                                      *)
(*                                                                         *)
(* Metadata is abstracted to one attribute (openid_provider.               *)
(* organization_name): Absent is `undefined`, EmptyObject is `{}`, any     *)
(* other string is the object holding that attribute value.  A statement's *)
(* metadata_policy is abstracted to one operator on that attribute.        *)
(***************************************************************************)
EXTENDS Integers, Sequences, FiniteSets

\* ------------------------------------------------------------------ bounds
MaxCandidates == 2
MaxStatements == 3
MaxClock == 2

\* ------------------------------------------------------------- data model
Absent == "undefined"
EmptyObject == "{}"

\* EntityStatementClaims, restricted to the claims the resolver and the
\* policy functions read: exp (an instant), metadata, metadata_policy (with
\* metadata_policy_crit folded in as the policy "crit:unknown").  The policies
\* "malformed" and "unappliable" stand for input on which the combiner,
\* respectively the applicator, throws an error of none of the named kinds.
Statement(exp, metadata, policy) == [exp |-> exp, metadata |-> metadata, metadata_policy |-> policy]

ExpValues == {1, 2}
StatementMetadata == {Absent, "Sup"}
ValuePolicies == {"none", "value:Org", "value:Alt"}

EntityStatementClaims == [exp : ExpValues, metadata : StatementMetadata, metadata_policy : ValuePolicies]

RECURSIVE SeqsUpTo(_, _)
SeqsUpTo(S, n) ==
    IF n = 0 THEN {<<>>}
    ELSE LET shorter == SeqsUpTo(S, n - 1)
         IN  shorter \cup {Append(s, x) : s \in {t \in shorter : Len(t) = n - 1}, x \in S}

\* EntityStatementChain values fetchEntityStatementChain can resolve to: every
\* chain of at most MaxStatements statements
EntityStatementChains == SeqsUpTo(EntityStatementClaims, MaxStatements)

\* One statement chain per way out of the loop body: no path; a single
\* statement; two statements, the first expiring at instant 1; an operator
\* conflict; an unknown critical operator; an essential attribute; a policy
\* the combiner throws an unexpected error on; a policy the applicator throws
\* an unexpected error on
OutcomeStatementChains ==
    {<<>>,
     <<Statement(2, Absent, "none")>>,
     <<Statement(1, "Sup", "value:Org"), Statement(2, Absent, "value:Alt")>>,
     <<Statement(2, Absent, "value:Org"), Statement(2, Absent, "value:Alt"), Statement(2, Absent, "none")>>,
     <<Statement(2, Absent, "crit:unknown"), Statement(2, Absent, "none")>>,
     <<Statement(2, Absent, "essential"), Statement(2, "Sup", "essential")>>,
     <<Statement(2, Absent, "malformed"), Statement(2, Absent, "none")>>,
     <<Statement(2, Absent, "unappliable"), Statement(2, Absent, "none")>>}

EntityConfiguration(sub, metadata) == [sub |-> sub, metadata |-> metadata]
SubjectMetadata == {Absent, "A"}
\* Configuration chains fetchEntityConfigurationChains can resolve to: index 1
\* is the subject, the last index the trust anchor; the empty chain is the
\* breach of the collaborator's contract that line 144 guards against.
EntityConfigurationChains ==
    {<<>>}
    \cup {<<EntityConfiguration("leaf", m)>> : m \in SubjectMetadata}
    \cup {<<EntityConfiguration("leaf", m), EntityConfiguration("ta1", EmptyObject)>> : m \in SubjectMetadata}
    \cup {<<EntityConfiguration("leaf", m), EntityConfiguration("int", EmptyObject),
            EntityConfiguration("ta2", EmptyObject)>> : m \in SubjectMetadata}

\* what discovery can resolve to: up to MaxCandidates candidates, or at most one
CandidateLists == SeqsUpTo(EntityConfigurationChains, MaxCandidates)
SingleCandidateLists == {<<>>} \cup {<<c>> : c \in EntityConfigurationChains}

\* value of an out-of-range index
Undefined == EntityConfiguration("undefined", Absent)

\* ------------------------------------------------- policy collaborators
\* combineMetadataPolicies: fold of the statements' policies, subject side first
NoPolicy == [value |-> "unset", essential |-> FALSE, unappliable |-> FALSE]

CombineStep(acc, policy) ==
    IF ~acc.success THEN acc
    ELSE IF policy = "crit:unknown"
         THEN [success |-> FALSE, error |-> "MetadataPolicyCritError"]
    ELSE IF policy = "malformed"
         THEN [success |-> FALSE, error |-> "Error"]
    ELSE IF policy = "none" THEN acc
    ELSE IF policy = "unappliable"
         THEN [success |-> TRUE, mergedPolicy |-> [acc.mergedPolicy EXCEPT !.unappliable = TRUE]]
    ELSE IF policy = "essential"
         THEN [success |-> TRUE, mergedPolicy |-> [acc.mergedPolicy EXCEPT !.essential = TRUE]]
    ELSE LET v == IF policy = "value:Org" THEN "Org" ELSE "Alt"
         IN  IF acc.mergedPolicy.value \in {"unset", v}
             THEN [success |-> TRUE, mergedPolicy |-> [acc.mergedPolicy EXCEPT !.value = v]]
             ELSE [success |-> FALSE, error |-> "PolicyOperatorMergeError"]

RECURSIVE CombineFrom(_, _, _)
CombineFrom(statements, i, acc) ==
    IF i > Len(statements) THEN acc
    ELSE CombineFrom(statements, i + 1, CombineStep(acc, statements[i].metadata_policy))

combineMetadataPolicies(statements) ==
    CombineFrom(statements, 1, [success |-> TRUE, mergedPolicy |-> NoPolicy])

\* mergeMetadata: the superior's value overrides the subject's
mergeMetadata(leafMetadata, superiorMetadata) ==
    IF superiorMetadata = EmptyObject THEN leafMetadata ELSE superiorMetadata

\* applyMetadataPolicyToMetadata
applyMetadataPolicyToMetadata(leafMetadata, policyMetadata) ==
    IF policyMetadata.unappliable
    THEN [success |-> FALSE, error |-> "Error"]
    ELSE IF policyMetadata.value # "unset"
    THEN [success |-> TRUE, resolvedLeafMetadata |-> policyMetadata.value]
    ELSE IF policyMetadata.essential /\ leafMetadata = EmptyObject
         THEN [success |-> FALSE, error |-> "PolicyValidationError"]
         ELSE [success |-> TRUE, resolvedLeafMetadata |-> leafMetadata]

\* ------------------------------------------------------ the loop body
StatementExpiredByWallClock(statement, snapshot, wallClock) == statement.exp < wallClock

\* line 70: statement.exp < now
StatementExpired(statement, snapshot, wallClock) == statement.exp < snapshot

ChainExpiredFirstOnly(chain, snapshot, wallClock) ==
    Len(chain) > 0 /\ StatementExpired(chain[1], snapshot, wallClock)

ChainExpiredInclusive(chain, snapshot, wallClock) ==
    \E i \in 1..Len(chain) : chain[i].exp <= snapshot

\* line 70: entityStatementChain.some(...)
ChainExpired(chain, snapshot, wallClock) ==
    \E i \in 1..Len(chain) : StatementExpired(chain[i], snapshot, wallClock)

\* line 76: entityConfigurationChain[0]
LeafEntityConfiguration(chain) == IF Len(chain) = 0 THEN Undefined ELSE chain[1]

TrustAnchorIsLeaf(chain) == IF Len(chain) = 0 THEN Undefined ELSE chain[1]

\* line 143: entityConfigurationChain[entityConfigurationChain.length - 1]
TrustAnchorEntityConfiguration(chain) == IF Len(chain) = 0 THEN Undefined ELSE chain[Len(chain)]

StatementsWithLeaf(chain) == chain

\* line 91: entityStatementChain.slice(0, -1)
StatementsWithoutLeaf(chain) == SubSeq(chain, 1, Len(chain) - 1)

\* `x ?? {}` of lines 119-120
OrEmpty(metadata) == IF metadata = Absent THEN EmptyObject ELSE metadata

DegenerateTrustChainDefaulted(configurations, statements) ==
    [valid |-> TRUE,
     chain |-> statements,
     trustAnchorEntityConfiguration |-> LeafEntityConfiguration(configurations),
     rawLeafEntityConfiguration |-> LeafEntityConfiguration(configurations),
     resolvedLeafMetadata |-> OrEmpty(LeafEntityConfiguration(configurations).metadata)]

\* lines 81-87
DegenerateTrustChain(configurations, statements) ==
    [valid |-> TRUE,
     chain |-> statements,
     trustAnchorEntityConfiguration |-> LeafEntityConfiguration(configurations),
     rawLeafEntityConfiguration |-> LeafEntityConfiguration(configurations),
     resolvedLeafMetadata |-> LeafEntityConfiguration(configurations).metadata]

\* lines 148-154
GeneralTrustChain(configurations, statements, resolved) ==
    [valid |-> TRUE,
     chain |-> statements,
     trustAnchorEntityConfiguration |-> TrustAnchorEntityConfiguration(configurations),
     rawLeafEntityConfiguration |-> LeafEntityConfiguration(configurations),
     resolvedLeafMetadata |-> resolved]

OnCombineFailureRethrowUnexpected(error) ==
    IF error = "PolicyOperatorMergeError" THEN "continue"
    ELSE IF error = "MetadataPolicyCritError" THEN "continue"
    ELSE "throw"

\* lines 97-113: what the loop does with a failed combination: continue on an
\* operator-merge error, on a metadata_policy_crit error, and on any other
OnCombineFailure(error) ==
    IF error = "PolicyOperatorMergeError" THEN "continue"
    ELSE IF error = "MetadataPolicyCritError" THEN "continue"
    ELSE "continue"

\* lines 129-140: what the loop does with a failed application: continue on a
\* validation error and on any other
OnApplyFailure(error) ==
    IF error = "PolicyValidationError" THEN "continue"
    ELSE "continue"

Step(verdict, emitted, combiner, merger, applicator) ==
    [verdict |-> verdict, emitted |-> emitted, combinerCalls |-> combiner,
     mergerCalls |-> merger, applicatorCalls |-> applicator]

\* lines 68-154: the synchronous remainder of one loop iteration, after
\* fetchEntityStatementChain has resolved: its way out (verdict), what it
\* pushes, and the arguments of the calls it makes to the policy functions
EvaluateCandidate(configurations, statements, snapshot, wallClock) ==
    IF Len(statements) = 0 THEN Step("no-path", <<>>, <<>>, <<>>, <<>>)
    ELSE IF ChainExpired(statements, snapshot, wallClock) THEN Step("expired", <<>>, <<>>, <<>>, <<>>)
    ELSE IF Len(statements) = 1 THEN
        IF Len(configurations) = 0
        THEN Step("TypeError", <<>>, <<>>, <<>>, <<>>)
        ELSE Step("emitted", <<DegenerateTrustChain(configurations, statements)>>, <<>>, <<>>, <<>>)
    ELSE
        LET statementsWithoutLeaf == StatementsWithoutLeaf(statements)
            combinedPolicyResult == combineMetadataPolicies(statementsWithoutLeaf)
            combiner == <<statementsWithoutLeaf>>
        IN  IF ~combinedPolicyResult.success THEN
                IF OnCombineFailure(combinedPolicyResult.error) = "continue"
                THEN Step("combine-failed", <<>>, combiner, <<>>, <<>>)
                ELSE Step(combinedPolicyResult.error, <<>>, combiner, <<>>, <<>>)
            ELSE IF Len(configurations) = 0 THEN Step("TypeError", <<>>, combiner, <<>>, <<>>)
            ELSE
                LET mergedPolicy == combinedPolicyResult.mergedPolicy
                    superiorEntityStatement == statementsWithoutLeaf[1]
                    mergerArgs == <<OrEmpty(LeafEntityConfiguration(configurations).metadata),
                                    OrEmpty(superiorEntityStatement.metadata)>>
                    mergedLeafMetadata == mergeMetadata(mergerArgs[1], mergerArgs[2])
                    applicatorArgs == [leafMetadata |-> mergedLeafMetadata, policyMetadata |-> mergedPolicy]
                    policyApplyResult == applyMetadataPolicyToMetadata(mergedLeafMetadata, mergedPolicy)
                IN  IF ~policyApplyResult.success THEN
                        IF OnApplyFailure(policyApplyResult.error) = "continue"
                        THEN Step("apply-failed", <<>>, combiner, <<mergerArgs>>, <<applicatorArgs>>)
                        ELSE Step(policyApplyResult.error, <<>>, combiner, <<mergerArgs>>, <<applicatorArgs>>)
                    ELSE IF TrustAnchorEntityConfiguration(configurations) = Undefined
                    THEN Step("OpenIdFederationError", <<>>, combiner, <<mergerArgs>>, <<applicatorArgs>>)
                    ELSE Step("emitted",
                              <<GeneralTrustChain(configurations, statements,
                                                  policyApplyResult.resolvedLeafMetadata)>>,
                              combiner, <<mergerArgs>>, <<applicatorArgs>>)

\* the ways out of the loop body that go on to the next candidate
Continues(verdict) == verdict \in {"no-path", "expired", "emitted", "combine-failed", "apply-failed"}

\* lines 81 and 148: trustChains.push(...)
Push(soFar, emitted) == soFar \o emitted

\* ------------------------------------------------------------- the call
\* pc: where the call is; clock: the wall clock; now: line 52;
\* entityConfigurationChains: line 54; trustChains: line 60; error: what the
\* call rejected with.  fetched and steps record, per candidate visited, what
\* fetchEntityStatementChain resolved to and what the loop body did with it.
VARIABLES pc, clock, now, entityConfigurationChains, fetched, steps, trustChains, error

vars == <<pc, clock, now, entityConfigurationChains, fetched, steps, trustChains, error>>

Init ==
    /\ pc = "idle"
    /\ clock = 1
    /\ now = 0
    /\ entityConfigurationChains = <<>>
    /\ fetched = <<>>
    /\ steps = <<>>
    /\ trustChains = <<>>
    /\ error = "none"

Suspended == pc \in {"idle", "discovering", "fetching"}

\* time passes while the call has not started or is suspended at an await
Tick ==
    /\ Suspended
    /\ clock < MaxClock
    /\ clock' = clock + 1
    /\ UNCHANGED <<pc, now, entityConfigurationChains, fetched, steps, trustChains, error>>

\* lines 49-58: capture now, call the discovery collaborator
Start ==
    /\ pc = "idle"
    /\ now' = clock
    /\ pc' = "discovering"
    /\ UNCHANGED <<clock, entityConfigurationChains, fetched, steps, trustChains, error>>

\* lines 54-62: discovery resolves; the loop begins (or ends at once)
DiscoveryResolves(candidateLists) ==
    /\ pc = "discovering"
    /\ \E chains \in candidateLists :
        /\ entityConfigurationChains' = chains
        /\ pc' = IF Len(chains) = 0 THEN "returned" ELSE "fetching"
    /\ UNCHANGED <<clock, now, fetched, steps, trustChains, error>>

\* line 54: discovery rejects
DiscoveryRejects ==
    /\ pc = "discovering"
    /\ pc' = "thrown"
    /\ error' = "discovery"
    /\ UNCHANGED <<clock, now, entityConfigurationChains, fetched, steps, trustChains>>

\* lines 64-157: fetchEntityStatementChain resolves for the current candidate
\* and the rest of the iteration runs
StatementChainResolves(statementChains) ==
    /\ pc = "fetching"
    /\ \E statements \in statementChains :
        LET position == Len(fetched) + 1
            step == EvaluateCandidate(entityConfigurationChains[position], statements, now, clock)
        IN  /\ fetched' = Append(fetched, [resolved |-> TRUE, chain |-> statements])
            /\ trustChains' = Push(trustChains, step.emitted)
            /\ steps' = Append(steps, [verdict |-> step.verdict,
                                       before |-> Len(trustChains),
                                       after |-> Len(trustChains'),
                                       combinerCalls |-> step.combinerCalls,
                                       mergerCalls |-> step.mergerCalls,
                                       applicatorCalls |-> step.applicatorCalls])
            /\ IF Continues(step.verdict)
               THEN /\ pc' = IF position = Len(entityConfigurationChains) THEN "returned" ELSE "fetching"
                    /\ error' = error
               ELSE /\ pc' = "thrown"
                    /\ error' = step.verdict
    /\ UNCHANGED <<clock, now, entityConfigurationChains>>

\* line 64: fetchEntityStatementChain rejects; nothing catches it
StatementChainRejects ==
    /\ pc = "fetching"
    /\ fetched' = Append(fetched, [resolved |-> FALSE, chain |-> <<>>])
    /\ steps' = Append(steps, [verdict |-> "fetch-rejected",
                               before |-> Len(trustChains),
                               after |-> Len(trustChains),
                               combinerCalls |-> <<>>,
                               mergerCalls |-> <<>>,
                               applicatorCalls |-> <<>>])
    /\ pc' = "thrown"
    /\ error' = "fetch"
    /\ UNCHANGED <<clock, now, entityConfigurationChains, trustChains>>

\* Calls over up to MaxCandidates candidates, their statement chains one per
\* way out of the loop body
Next ==
    \/ Tick
    \/ Start
    \/ DiscoveryResolves(CandidateLists)
    \/ DiscoveryRejects
    \/ StatementChainResolves(OutcomeStatementChains)
    \/ StatementChainRejects

Spec == Init /\ [][Next]_vars

\* Calls over at most one candidate, its statement chain any chain of at most
\* MaxStatements statements
NextChains ==
    \/ Tick
    \/ Start
    \/ DiscoveryResolves(SingleCandidateLists)
    \/ DiscoveryRejects
    \/ StatementChainResolves(EntityStatementChains)
    \/ StatementChainRejects

SpecChains == Init /\ [][NextChains]_vars

\* ------------------------------------------------------------ the claims
\* the candidates the loop has visited
Visited == 1..Len(steps)
\* the candidates whose statement chain was fetched, so the loop body ran
Evaluated == {i \in Visited : fetched[i].resolved}
Cfg(i) == entityConfigurationChains[i]
Stmts(i) == fetched[i].chain
\* the trust chains the iteration of candidate i pushed, as they stand now
EmittedBy(i) == SubSeq(trustChains, steps[i].before + 1, steps[i].after)

SomeStatementExpired(i) == \E k \in 1..Len(Stmts(i)) : Stmts(i)[k].exp < now
AbsentAsEmpty(metadata) == IF metadata = Absent THEN EmptyObject ELSE metadata
\* the statements before the final one
Intermediate(i) == [k \in 1..(Len(Stmts(i)) - 1) |-> Stmts(i)[k]]
CombinationOf(i) == combineMetadataPolicies(Intermediate(i))
PrePolicyMetadata(i) ==
    mergeMetadata(AbsentAsEmpty(Cfg(i)[1].metadata), AbsentAsEmpty(Stmts(i)[1].metadata))
ApplicationOf(i) == applyMetadataPolicyToMetadata(PrePolicyMetadata(i), CombinationOf(i).mergedPolicy)

\* C1: a candidate whose non-empty statement chain holds, at any position, a
\* statement with exp before the resolution-start instant emits no TrustChain.
C1_ExpiredChainEmitsNothing ==
    \A i \in Evaluated : SomeStatementExpired(i) => EmittedBy(i) = <<>>

\* C1 case: a chain of three statements of which only the last has expired
C1_Witness ==
    \E i \in Evaluated :
        /\ Len(Stmts(i)) = 3
        /\ Stmts(i)[3].exp < now
        /\ Stmts(i)[1].exp >= now
        /\ Stmts(i)[2].exp >= now
        /\ Len(Cfg(i)) > 0
        /\ CombinationOf(i).success

\* C2: a rejection of fetchEntityStatementChain on one candidate drops that
\* candidate only: the call does not end with an error because of it.
C2_FetchRejectionDoesNotAbort ==
    \A i \in Visited : ~fetched[i].resolved => pc # "thrown"

\* C3: a candidate whose configuration chain is empty always ends the call
\* with an error; it is never passed over.
C3_EmptyConfigurationChainIsFatal ==
    \A i \in Evaluated : Len(Cfg(i)) = 0 => pc = "thrown"

\* C4 as stated: every candidate whose statement chain is one unexpired
\* statement emits exactly one TrustChain, made of the subject's own
\* configuration and raw metadata, and no policy function is called.
C4_DegenerateAlwaysEmits ==
    \A i \in Evaluated :
        (Len(Stmts(i)) = 1 /\ ~SomeStatementExpired(i)) =>
            /\ Len(EmittedBy(i)) = 1
            /\ EmittedBy(i)[1].resolvedLeafMetadata = Cfg(i)[1].metadata
            /\ EmittedBy(i)[1].trustAnchorEntityConfiguration = Cfg(i)[1]
            /\ EmittedBy(i)[1].rawLeafEntityConfiguration = Cfg(i)[1]
            /\ steps[i].combinerCalls = <<>>
            /\ steps[i].mergerCalls = <<>>
            /\ steps[i].applicatorCalls = <<>>

\* C4 amended: every candidate with a non-empty configuration chain whose
\* statement chain is one unexpired statement emits exactly one TrustChain:
\* resolvedLeafMetadata is the subject's raw metadata unchanged,
\* trustAnchorEntityConfiguration and rawLeafEntityConfiguration are the
\* subject's own configuration, and neither the combiner, the merger nor the
\* applicator is called.
C4_DegenerateIdentity ==
    \A i \in Evaluated :
        (Len(Cfg(i)) > 0 /\ Len(Stmts(i)) = 1 /\ ~SomeStatementExpired(i)) =>
            /\ Len(EmittedBy(i)) = 1
            /\ EmittedBy(i)[1].resolvedLeafMetadata = Cfg(i)[1].metadata
            /\ EmittedBy(i)[1].trustAnchorEntityConfiguration = Cfg(i)[1]
            /\ EmittedBy(i)[1].rawLeafEntityConfiguration = Cfg(i)[1]
            /\ EmittedBy(i)[1].chain = Stmts(i)
            /\ steps[i].combinerCalls = <<>>
            /\ steps[i].mergerCalls = <<>>
            /\ steps[i].applicatorCalls = <<>>

\* C4 case: a single unexpired statement whose own policy and metadata would
\* change the result, for a subject without metadata
C4_Witness ==
    \E i \in Evaluated :
        /\ Len(Cfg(i)) > 0
        /\ Cfg(i)[1].metadata = Absent
        /\ Len(Stmts(i)) = 1
        /\ Stmts(i)[1].metadata_policy = "value:Org"
        /\ Stmts(i)[1].metadata = "Sup"
        /\ Len(EmittedBy(i)) = 1

\* a candidate on which policy combination or policy application fails
CombinationFails(i) ==
    /\ Len(Stmts(i)) >= 2
    /\ ~SomeStatementExpired(i)
    /\ ~CombinationOf(i).success
ApplicationFails(i) ==
    /\ Len(Stmts(i)) >= 2
    /\ ~SomeStatementExpired(i)
    /\ CombinationOf(i).success
    /\ Len(Cfg(i)) > 0
    /\ ~ApplicationOf(i).success

C5_FailureDropsCandidate ==
    \A i \in Evaluated :
        (CombinationFails(i) \/ ApplicationFails(i)) =>
            /\ EmittedBy(i) = <<>>
            /\ steps[i].verdict \in {"combine-failed", "apply-failed"}
            /\ (i = Len(steps) => pc = IF i = Len(entityConfigurationChains)
                                       THEN "returned" ELSE "fetching")
            /\ (i = Len(steps) => error = "none")

C5_TrustChainsOnlyGrow ==
    /\ Len(trustChains') >= Len(trustChains)
    /\ \A k \in 1..Len(trustChains) : trustChains'[k] = trustChains[k]

\* C5: a failure of policy combination (operator-merge error, critical-policy
\* error, any other error) or of policy application (validation error, any
\* other error) on a candidate
\* removes that candidate only: the iteration pushes nothing, the call goes
\* on to the next candidate (or returns) without an error, and no step of the
\* call removes or alters a TrustChain pushed before.
C5_PolicyFailureIsLocal == [] C5_FailureDropsCandidate /\ [][C5_TrustChainsOnlyGrow]_vars

\* C5 case: a returned call whose first candidate failed application with an
\* error of no named kind and whose second candidate was emitted after it
C5_Witness ==
    /\ pc = "returned"
    /\ error = "none"
    /\ Len(steps) = 2
    /\ ApplicationFails(1)
    /\ ApplicationOf(1).error = "Error"
    /\ EmittedBy(1) = <<>>
    /\ Len(EmittedBy(2)) = 1
    /\ Len(trustChains) = 1

\* C5 case: a returned call whose first candidate was emitted and whose second
\* failed combination with an error of no named kind
C5_WitnessCombination ==
    /\ pc = "returned"
    /\ error = "none"
    /\ Len(steps) = 2
    /\ Len(EmittedBy(1)) = 1
    /\ CombinationFails(2)
    /\ CombinationOf(2).error = "Error"
    /\ Len(trustChains) = 1

\* the candidates the result is to hold a TrustChain for
Passes(i) ==
    /\ fetched[i].resolved
    /\ Len(Stmts(i)) > 0
    /\ ~SomeStatementExpired(i)
    /\ \/ Len(Stmts(i)) = 1
       \/ /\ CombinationOf(i).success
          /\ ApplicationOf(i).success

\* C6: the returned list holds, in the order of the candidates, exactly one
\* TrustChain for every candidate with a non-empty, unexpired statement chain
\* that passes combination and application, and none for any other; no error
\* is raised.
C6_FanOut ==
    pc = "returned" =>
        /\ error = "none"
        /\ Len(steps) = Len(entityConfigurationChains)
        /\ \A i \in Visited :
            /\ steps[i].before = (IF i = 1 THEN 0 ELSE steps[i - 1].after)
            /\ Len(EmittedBy(i)) = (IF Passes(i) THEN 1 ELSE 0)
            /\ Passes(i) => /\ EmittedBy(i)[1].chain = Stmts(i)
                            /\ EmittedBy(i)[1].rawLeafEntityConfiguration = Cfg(i)[1]
        /\ Len(trustChains) = (IF Len(steps) = 0 THEN 0 ELSE steps[Len(steps)].after)

\* C6 case: two anchors reached over different paths, each candidate passing
C6_Witness ==
    /\ pc = "returned"
    /\ Len(steps) = 2
    /\ Len(Cfg(1)) = 2
    /\ Len(Cfg(2)) = 3
    /\ Len(Stmts(1)) = 2
    /\ Len(Stmts(2)) = 2
    /\ Stmts(2)[1].exp = now
    /\ Len(trustChains) = 2
    /\ trustChains[1].trustAnchorEntityConfiguration.sub = "ta1"
    /\ trustChains[2].trustAnchorEntityConfiguration.sub = "ta2"

\* C6 case: no candidate has a verifiable path
C6_WitnessEmpty ==
    /\ pc = "returned"
    /\ Len(steps) = 2
    /\ \A i \in Visited : Stmts(i) = <<>>
    /\ trustChains = <<>>

\* C7 as stated: in every emitted TrustChain trustAnchorEntityConfiguration is
\* the final element of the candidate's configuration chain.
C7_AnchorIsAlwaysLast ==
    \A i \in Evaluated : \A k \in 1..Len(EmittedBy(i)) :
        EmittedBy(i)[k].trustAnchorEntityConfiguration = Cfg(i)[Len(Cfg(i))]

\* C7 amended: in every TrustChain emitted for a statement chain of two or
\* more statements trustAnchorEntityConfiguration is the final element of the
\* candidate's configuration chain; for a statement chain of one statement it
\* is the element at index 0, the subject's own configuration.
C7_AnchorConfiguration ==
    \A i \in Evaluated : \A k \in 1..Len(EmittedBy(i)) :
        EmittedBy(i)[k].trustAnchorEntityConfiguration =
            (IF Len(Stmts(i)) >= 2 THEN Cfg(i)[Len(Cfg(i))] ELSE Cfg(i)[1])

\* C7 case: a TrustChain emitted for a longer statement chain over a
\* configuration chain of three
C7_Witness ==
    \E i \in Evaluated :
        /\ Len(Cfg(i)) = 3
        /\ Len(Stmts(i)) = 3
        /\ Len(EmittedBy(i)) = 1
        /\ EmittedBy(i)[1].trustAnchorEntityConfiguration.sub = "ta2"

C8_VerdictBySnapshot ==
    /\ pc # "idle" => now <= clock
    /\ \A i \in Evaluated :
        Len(Stmts(i)) > 0 => (steps[i].verdict = "expired" <=> SomeStatementExpired(i))

C8_SnapshotTakenOnce ==
    /\ pc = "idle" /\ pc' # "idle" => now' = clock
    /\ pc # "idle" => now' = now
    /\ pc = "idle" => fetched = <<>> /\ entityConfigurationChains = <<>>

\* C8: the instant of the expiry checks is the clock at the start of the call,
\* taken before discovery and before any fetch, and never changes during the
\* call; a candidate is dropped as expired exactly if one of its statements has
\* exp before that instant, however far the clock has advanced since, so a
\* statement with exp equal to the instant is not expired.
C8_SingleSnapshotInstant == [] C8_VerdictBySnapshot /\ [][C8_SnapshotTakenOnce]_vars

\* C8 case: the clock has passed the snapshot at evaluation; one statement's exp
\* equals the snapshot and lies before the clock; the candidate is emitted
C8_Witness ==
    \E i \in Evaluated :
        /\ now < clock
        /\ Len(Stmts(i)) = 2
        /\ Stmts(i)[2].exp = now
        /\ Stmts(i)[2].exp < clock
        /\ steps[i].verdict = "emitted"

\* C9: for every unexpired candidate with n >= 2 statements: the combiner is
\* called once, with statements 0..n-2 in order; the merger, when reached, with
\* the subject's metadata and the metadata of statement 0, each {} when absent;
\* the applicator, when reached, with the merged metadata and the combined
\* policy; an emitted TrustChain carries the applicator's output, the whole
\* statement chain and the configuration at index 0.
C9_GeneralPipeline ==
    \A i \in Evaluated :
        (Len(Stmts(i)) >= 2 /\ ~SomeStatementExpired(i)) =>
            /\ steps[i].combinerCalls = <<Intermediate(i)>>
            /\ (CombinationOf(i).success /\ Len(Cfg(i)) > 0) =>
                /\ steps[i].mergerCalls =
                     << <<AbsentAsEmpty(Cfg(i)[1].metadata), AbsentAsEmpty(Stmts(i)[1].metadata)>> >>
                /\ steps[i].applicatorCalls =
                     <<[leafMetadata |-> PrePolicyMetadata(i),
                        policyMetadata |-> CombinationOf(i).mergedPolicy]>>
                /\ Len(EmittedBy(i)) = (IF ApplicationOf(i).success THEN 1 ELSE 0)
            /\ ~(CombinationOf(i).success /\ Len(Cfg(i)) > 0) =>
                /\ steps[i].mergerCalls = <<>>
                /\ steps[i].applicatorCalls = <<>>
                /\ EmittedBy(i) = <<>>
            /\ \A k \in 1..Len(EmittedBy(i)) :
                /\ EmittedBy(i)[k].resolvedLeafMetadata = ApplicationOf(i).resolvedLeafMetadata
                /\ EmittedBy(i)[k].chain = Stmts(i)
                /\ EmittedBy(i)[k].rawLeafEntityConfiguration = Cfg(i)[1]

\* C9 case: three statements, the final one carrying a policy that would
\* conflict and the middle one metadata that would override; subject without
\* metadata; emitted
C9_Witness ==
    \E i \in Evaluated :
        /\ Len(Stmts(i)) = 3
        /\ Len(Cfg(i)) > 0
        /\ Cfg(i)[1].metadata = Absent
        /\ Stmts(i)[1].metadata = Absent
        /\ Stmts(i)[2].metadata = "Sup"
        /\ Stmts(i)[1].metadata_policy = "none"
        /\ Stmts(i)[2].metadata_policy = "none"
        /\ Stmts(i)[3].metadata_policy = "value:Alt"
        /\ Len(EmittedBy(i)) = 1
        /\ EmittedBy(i)[1].resolvedLeafMetadata = EmptyObject

\* a call all of whose candidates have a subject and an anchor configuration
WellFormedCandidates == \A j \in 1..Len(entityConfigurationChains) : Len(Cfg(j)) > 0

\* C10: whether a candidate yields a TrustChain depends on its own
\* configuration chain, its own statement chain and the shared instant only,
\* never on the other candidates: in a call over well-formed candidates that
\* has ended, every candidate that passes on its own has its TrustChain in the
\* list the call returns.
C10_CandidateIndependence ==
    (WellFormedCandidates /\ pc \in {"returned", "thrown"}) =>
        \A i \in Evaluated :
            Passes(i) => /\ pc = "returned"
                         /\ Len(EmittedBy(i)) = 1

====
